---- MODULE Spec2Model ----
(***************************************************************************)
(* Model of final-project.py: the airport density and accessibility        *)
(* dashboard.  One run of main() is a sequence of steps (load, sidebar     *)
(* filters, density tab, closest-airports tab, radius stage); every user   *)
(* interaction re-runs main() from its first line.                         *)
(*                                                                         *)
(* Numbers.  Python floats are modelled in fixed point:                    *)
(*   - an angle in radians is an integer number of units of pi/360 rad     *)
(*     (half a degree), so math.radians(deg) = 2 * deg; the angle asin     *)
(*     returns is in tenths of that unit;                                  *)
(*   - sines and cosines are integers scaled by 10^4, products of two of   *)
(*     them are scaled by 10^8;                                            *)
(*   - a distance in kilometres is an integer number of metres (three      *)
(*     decimals of a kilometre), so rounding to two decimals is visible.   *)
(* A DataFrame is a sequence of records; the field idx holds the row's     *)
(* index label.  A missing value (NaN) of a text column is the token NaN.  *)
(***************************************************************************)
EXTENDS Integers, Sequences, FiniteSets, TLC

VARIABLES
    csv,              \* rows of airport-codes.csv (external input)
    iso_csv,          \* rows of wikipedia-iso-country-codes.csv (external input)
    airports,         \* the frame main() holds after load_airports()
    loads,            \* number of times load_airports() has read the files
    runs,             \* number of runs of main() started in this session
    pc,               \* position of the current run of main() / of the call
    selected_cont,    \* sidebar widget values of the current run
    selected_country,
    selected_types,
    df_filtered,      \* the filtered frame of the current run
    counts,           \* country aggregation of the current run
    city_name,        \* city chosen in tab 2
    closest_df,       \* result of find_closest_airports in the current run
    radius,           \* slider value
    df_radius,        \* airports within the radius (unsorted, exact distances)
    shown,            \* what the run has put on the page
    ran,              \* dependent computations executed in the current run
    args,             \* arguments of a direct call of a helper function
    ret               \* value returned by that call

vars == <<csv, iso_csv, airports, loads, runs, pc, selected_cont, selected_country,
          selected_types, df_filtered, counts, city_name, closest_df, radius,
          df_radius, shown, ran, args, ret>>

\* ------------------------------------------------------------------ bounds
MaxRows == 3           \* rows of the airport table
MaxRuns == 2           \* runs of main() in one session
MaxSliderMoves == 1    \* slider steps the user moves away from the default
MaxK == 4              \* largest k passed to find_closest_airports directly

\* ------------------------------------------------------------ small helpers
NaN == "<NaN>"

Min(a, b) == IF a <= b THEN a ELSE b

Range(s) == {s[i] : i \in 1..Len(s)}

RECURSIVE SeqsUpTo(_, _)
SeqsUpTo(S, n) ==
    IF n = 0 THEN {<<>>}
    ELSE LET shorter == SeqsUpTo(S, n - 1)
         IN  shorter \cup {Append(s, x) : s \in {t \in shorter : Len(t) = n - 1}, x \in S}

\* ------------------------------------------------------- fixed-point maths
\* math.radians: degrees -> radians, in units of pi/360 rad.
radians(deg) == 2 * deg

\* math.sin on [-pi, pi] (x in units of pi/360 rad), scaled by 10^4.
\* Bhaskara's rational approximation on [0, pi], odd symmetry below 0.
SinPos(x) == (4 * x * (360 - x) * 10000) \div (162000 - x * (360 - x))

sin(x) == IF x < 0 THEN -SinPos(-x) ELSE SinPos(x)

\* math.cos on [-pi/2, pi/2]: cos(x) = sin(pi/2 - x).
cos(x) == sin(180 - x)

\* math.sqrt of a value scaled by 10^8, result scaled by 10^4.
RECURSIVE SqrtBetween(_, _, _)
SqrtBetween(n, lo, hi) ==
    IF lo >= hi THEN lo
    ELSE LET mid == (lo + hi + 1) \div 2
         IN  IF mid * mid <= n THEN SqrtBetween(n, mid, hi)
             ELSE SqrtBetween(n, lo, mid - 1)

sqrt(n) == SqrtBetween(n, 0, 15000)

\* math.asin on [0, 1] (y scaled by 10^4), in units of pi/3600 rad: the
\* largest angle of the sine table whose sine is not above y, and linear
\* interpolation to the next one.
RECURSIVE AsinBetween(_, _, _)
AsinBetween(y, lo, hi) ==
    IF lo >= hi THEN lo
    ELSE LET mid == (lo + hi + 1) \div 2
         IN  IF sin(mid) <= y THEN AsinBetween(y, mid, hi)
             ELSE AsinBetween(y, lo, mid - 1)

asin(y) ==
    LET t == AsinBetween(y, 0, 180)
    IN  IF t = 180 THEN 1800
        ELSE 10 * t + (10 * (y - sin(t))) \div (sin(t + 1) - sin(t))

\* Default earth radius of haversine_km, in kilometres.
radius_km == 6371

\* Variant of haversine_km that takes the second point for the difference.
HaversineNoSubtract(lat1d, lon1d, lat2d, lon2d) ==
    LET lat1 == radians(lat1d)
        lon1 == radians(lon1d)
        lat2 == radians(lat2d)
        lon2 == radians(lon2d)
        dlat == lat2
        dlon == lon2
        a    == sin(dlat \div 2) * sin(dlat \div 2)
                + ((cos(lat1) * cos(lat2)) \div 10000)
                  * ((sin(dlon \div 2) * sin(dlon \div 2)) \div 10000)
    IN  (radius_km * 2 * ((asin(sqrt(a)) * 873) \div 10)) \div 100

\* haversine_km: great-circle distance in metres between two points given in
\* whole degrees.  asin returns units of pi/3600 rad = 87.3 * 10^-5 rad.
haversine_km(lat1d, lon1d, lat2d, lon2d) ==
    LET lat1 == radians(lat1d)
        lon1 == radians(lon1d)
        lat2 == radians(lat2d)
        lon2 == radians(lon2d)
        dlat == lat2 - lat1
        dlon == lon2 - lon1
        a    == sin(dlat \div 2) * sin(dlat \div 2)
                + ((cos(lat1) * cos(lat2)) \div 10000)
                  * ((sin(dlon \div 2) * sin(dlon \div 2)) \div 10000)
    IN  (radius_km * 2 * ((asin(sqrt(a)) * 873) \div 10)) \div 100

\* ------------------------------------------------------------- input data
\* WORLD_CITIES, two of its entries, coordinates in whole degrees (lat, lon).
WORLD_CITIES ==
    [c \in {"Athens, Greece", "Singapore"} |->
        IF c = "Athens, Greece" THEN <<38, 24>> ELSE <<1, 104>>]



\* Rows an airport table may hold.  coordinates is the parsed "lon, lat"
\* string: a field that pd.to_numeric cannot read is absent from the tuple.
CsvRows ==
    { [name |-> "Athens Intl", type |-> "large_airport", continent |-> "EU",
       iso_country |-> "GR", municipality |-> "Athens", coordinates |-> <<24, 38>>],
      [name |-> NaN, type |-> "small_airport", continent |-> "EU",
       iso_country |-> "gr", municipality |-> NaN, coordinates |-> <<26, 42>>],
      [name |-> "South Field", type |-> NaN, continent |-> NaN,
       iso_country |-> "xk", municipality |-> NaN, coordinates |-> <<22, 42>>],
      [name |-> "Changi", type |-> "large_airport", continent |-> "AS",
       iso_country |-> "SG", municipality |-> "Singapore", coordinates |-> <<104, 1>>],
      [name |-> "Ghost Strip", type |-> "small_airport", continent |-> "EU",
       iso_country |-> "GR", municipality |-> NaN, coordinates |-> <<24>>] }

\* Country-code reference tables the session may start with: upper-case and
\* lower-case codes, no entry for XK.
IsoTables ==
    { << [code |-> "GR", name |-> "Greece"], [code |-> "sg", name |-> "Singapore"] >> }

\* Python's order on the strings that occur (code point order).
StrOrder ==
    << "AS", "Asia", "EU", "Europe", "GR", "Greece", "SG", "Singapore", "XK",
       "large_airport", "small_airport" >>

\* sorted(values) for a set of strings.
sorted(S) == SelectSeq(StrOrder, LAMBDA x : x \in S)

\* Series.dropna().unique() as a set of values.
dropna_unique(df, col) == {df[i][col] : i \in 1..Len(df)} \ {NaN}

\* str.upper() on the country codes that occur; a missing value stays missing.
str_upper(s) ==
    CASE s = "gr" -> "GR"
      [] s = "sg" -> "SG"
      [] s = "xk" -> "XK"
      [] OTHER -> s

\* ------------------------------------------------------- helper functions
\* add_large_flag: 1 if "large" occurs in str(t).lower(), else 0.
is_large(t) == IF t \in {"large_airport"} THEN 1 ELSE 0

\* get_sorted_types
get_sorted_types(df) == sorted(dropna_unique(df, "type"))

\* get_continent_full_name
get_continent_full_name(code) ==
    CASE code = "AF" -> "Africa"
      [] code = "AN" -> "Antarctica"
      [] code = "AS" -> "Asia"
      [] code = "EU" -> "Europe"
      [] code = "NA" -> "North America"
      [] code = "OC" -> "Oceania"
      [] code = "SA" -> "South America"
      [] OTHER -> code

\* The coordinates (lat, lon) that occur: the cities and the located airports.
Coordinates ==
    {WORLD_CITIES[c] : c \in DOMAIN WORLD_CITIES}
    \cup {<<r.coordinates[2], r.coordinates[1]>> : r \in {x \in CsvRows : Len(x.coordinates) >= 2}}

\* haversine_km on the coordinates that occur, evaluated once:
\* <<from, to, distance>>.
DistanceTable ==
    {<<p, q, haversine_km(p[1], p[2], q[1], q[2])>> : p \in Coordinates, q \in Coordinates}

Distance(lat1, lon1, lat2, lon2) ==
    (CHOOSE t \in DistanceTable : t[1] = <<lat1, lon1>> /\ t[2] = <<lat2, lon2>>)[3]

\* compute_distances_to_pin: <<idx, d>> per row, in the frame's order.
compute_distances_to_pin(df, pin_lat, pin_lon) ==
    [i \in 1..Len(df) |->
        <<df[i].idx,
          Distance(pin_lat, pin_lon, df[i].latitude_deg, df[i].longitude_deg)>>]

\* list.sort(key=lambda x: x[1]) is stable: an element is inserted after the
\* elements whose key is not larger.
\* Variant of InsertByDistance that inserts before the elements of equal key.
InsertUnstable(sortedSeq, x) ==
    LET n == Cardinality({i \in 1..Len(sortedSeq) : sortedSeq[i][2] < x[2]})
    IN  SubSeq(sortedSeq, 1, n) \o <<x>> \o SubSeq(sortedSeq, n + 1, Len(sortedSeq))

InsertByDistance(sortedSeq, x) ==
    LET n == Cardinality({i \in 1..Len(sortedSeq) : sortedSeq[i][2] <= x[2]})
    IN  SubSeq(sortedSeq, 1, n) \o <<x>> \o SubSeq(sortedSeq, n + 1, Len(sortedSeq))

RECURSIVE sort_by_distance(_)
sort_by_distance(dist_list) ==
    IF dist_list = <<>> THEN <<>>
    ELSE InsertByDistance(sort_by_distance(SubSeq(dist_list, 1, Len(dist_list) - 1)),
                          dist_list[Len(dist_list)])

\* df.loc[label]: the row of the frame with that index label.
loc(df, label) == df[CHOOSE i \in 1..Len(df) : df[i].idx = label]

\* a row with the column distance_km set
WithDistance(row, d) ==
    [idx |-> row.idx, name |-> row.name, type |-> row.type,
     continent |-> row.continent, iso_country |-> row.iso_country,
     municipality |-> row.municipality, latitude_deg |-> row.latitude_deg,
     longitude_deg |-> row.longitude_deg, country_name |-> row.country_name,
     is_large |-> row.is_large, distance_km |-> d]

\* Variant of find_closest_airports with the slice one element short.
FindClosestKMinusOne(df, pin_lat, pin_lon, k) ==
    LET dist_list == sort_by_distance(compute_distances_to_pin(df, pin_lat, pin_lon))
        firstk    == SubSeq(dist_list, 1, Min(k - 1, Len(dist_list)))
    IN  [i \in 1..Len(firstk) |-> WithDistance(loc(df, firstk[i][1]), firstk[i][2])]

\* find_closest_airports: dist_list[:k] of the sorted list, k >= 0.
find_closest_airports(df, pin_lat, pin_lon, k) ==
    LET dist_list == sort_by_distance(compute_distances_to_pin(df, pin_lat, pin_lon))
        firstk    == SubSeq(dist_list, 1, Min(k, Len(dist_list)))
    IN  [i \in 1..Len(firstk) |-> WithDistance(loc(df, firstk[i][1]), firstk[i][2])]

\* ------------------------------------------------------------ load_airports
\* dict(zip(codes.str.upper(), names)): a later row replaces an earlier one.
iso_map(iso) ==
    [c \in {str_upper(iso[j].code) : j \in 1..Len(iso)} |->
        LET last == CHOOSE j \in 1..Len(iso) :
                       /\ str_upper(iso[j].code) = c
                       /\ \A j2 \in (j + 1)..Len(iso) : str_upper(iso[j2].code) # c
        IN  iso[last].name]

\* Variant of CountryName that looks the code up as it is written.
CountryNameRaw(code, iso) ==
    LET m == iso_map(iso)
    IN  IF code \in DOMAIN m THEN m[code] ELSE code

\* iso_map.get(c, c) for c = the upper-cased code
CountryName(code, iso) ==
    LET c == str_upper(code)
        m == iso_map(iso)
    IN  IF c \in DOMAIN m THEN m[c] ELSE c

\* One loaded row: coordinates split into longitude (first) and latitude
\* (second), country_name and is_large added; idx is the row's position in
\* the file, counted from 0.
LoadedRow(r, i, iso) ==
    [idx |-> i - 1, name |-> r.name, type |-> r.type, continent |-> r.continent,
     iso_country |-> r.iso_country, municipality |-> r.municipality,
     latitude_deg |-> r.coordinates[2], longitude_deg |-> r.coordinates[1],
     country_name |-> CountryName(r.iso_country, iso), is_large |-> is_large(r.type)]

\* load_airports: rows without a latitude or a longitude are dropped.
load_airports(rows, iso) ==
    LET kept == SelectSeq([i \in 1..Len(rows) |-> i],
                          LAMBDA i : Len(rows[i].coordinates) >= 2)
    IN  [n \in 1..Len(kept) |-> LoadedRow(rows[kept[n]], kept[n], iso)]

\* ------------------------------------------------------- sidebar filters
\* name_to_code = {v: k for k, v in code_to_name.items()}: of two codes with
\* the same display name the later one (in sorted order) is kept.
name_to_code(codes, display) ==
    LET last == CHOOSE i \in 1..Len(codes) :
                   /\ get_continent_full_name(codes[i]) = display
                   /\ \A j \in (i + 1)..Len(codes) :
                          get_continent_full_name(codes[j]) # display
    IN  codes[last]

\* cont_display: the options of the continent selectbox.
cont_display(df) ==
    LET codes == sorted(dropna_unique(df, "continent"))
    IN  <<"All continents">> \o [i \in 1..Len(codes) |-> get_continent_full_name(codes[i])]

\* Variant of FilterContinent that ignores the selection.
FilterContinentNone(df, cont) == df

\* #[FILTER1]
FilterContinent(df, cont) ==
    IF cont = "All continents" THEN df
    ELSE LET code == name_to_code(sorted(dropna_unique(df, "continent")), cont)
         IN  SelectSeq(df, LAMBDA r : r.continent = code)

\* country_display: the options of the country selectbox.
country_display(df_cont) ==
    <<"All countries">> \o sorted(dropna_unique(df_cont, "country_name"))

\* #[FILTER2]
FilterCountry(df_cont, country) ==
    IF country = "All countries" THEN df_cont
    ELSE SelectSeq(df_cont, LAMBDA r : r.country_name = country)

\* df_country[df_country["type"].isin(selected_types)]
FilterTypes(df_country, types) == SelectSeq(df_country, LAMBDA r : r.type \in types)

\* DataFrame.empty
empty(df) == Len(df) = 0

\* ----------------------------------------------------- country aggregation
\* groupby("country_name")["name"].count(): one group per non-missing country
\* name, counting the rows of the group whose name is not missing.
CountNames(df, country) ==
    Cardinality({i \in 1..Len(df) : df[i].country_name = country /\ df[i].name # NaN})

GroupCounts(df) ==
    LET keys == sorted(dropna_unique(df, "country_name"))
    IN  [i \in 1..Len(keys) |->
            [country_name |-> keys[i], airport_count |-> CountNames(df, keys[i])]]

\* The orders a sort of the frame by one column may produce: the sort pandas
\* uses by default is not stable, so rows with equal keys come in any order.
Orderings(df, col, descending) ==
    LET n == Len(df)
        perms == {p \in [1..n -> 1..n] :
                     /\ \A i, j \in 1..n : i # j => p[i] # p[j]
                     /\ \A i \in 1..(n - 1) :
                            IF descending THEN df[p[i]][col] >= df[p[i + 1]][col]
                            ELSE df[p[i]][col] <= df[p[i + 1]][col]}
    IN  {[i \in 1..n |-> df[p[i]]] : p \in perms}

\* counts.sort_values("airport_count", ascending=False)
SortedCounts(df) == Orderings(GroupCounts(df), "airport_count", TRUE)

\* get_country_min_max
get_country_min_max(counts_df) ==
    IF empty(counts_df) THEN <<NaN, NaN>>
    ELSE <<counts_df[1], counts_df[Len(counts_df)]>>

\* ------------------------------------------------------------ radius stage
\* round(x, 2) of a distance in km: to the nearest 10 m, a tie to the even one.
round2(d) ==
    LET q == d \div 10
        r == d % 10
    IN  IF r < 5 THEN q * 10
        ELSE IF r > 5 THEN (q + 1) * 10
        ELSE IF q % 2 = 0 THEN q * 10 ELSE (q + 1) * 10

\* df[["name", "type", "country_name", "municipality", "distance_km"]]
\*   .round({"distance_km": 2}), one row of it
ShowRow(r) ==
    [idx |-> r.idx, name |-> r.name, type |-> r.type, country_name |-> r.country_name,
     municipality |-> r.municipality, distance_km |-> round2(r.distance_km)]

ShowTable(df) == [i \in 1..Len(df) |-> ShowRow(df[i])]

\* k of the call in main()
DefaultK == 3

\* st.slider("Radius (km)", 100, int(max_dist), 500, step=50)
SliderMin == 100
SliderDefault == 500
SliderStep == 50
\* max_dist when the frame has no rows
EmptyMaxDist == 1000

\* max(dist_values) if dist_values else 1000, in metres
max_dist(distances) ==
    IF Len(distances) = 0 THEN EmptyMaxDist * 1000
    ELSE CHOOSE d \in {distances[i][2] : i \in 1..Len(distances)} :
             \A i \in 1..Len(distances) : distances[i][2] <= d

\* int(max_dist): kilometres, truncated
SliderMax(distances) == max_dist(distances) \div 1000

\* The arguments of st.slider are a valid range: min <= value <= max.
SliderValid(distances) ==
    SliderMin <= SliderDefault /\ SliderDefault <= SliderMax(distances)

Max(a, b) == IF a >= b THEN a ELSE b

\* The range of the slider once it is built.  A Streamlit release that does
\* not reject a default outside [min, max] widens the range to contain it;
\* with valid arguments this is [min, max] itself.
SliderLow(distances) == Min(SliderDefault, Min(SliderMin, SliderMax(distances)))

SliderHigh(distances) ==
    Max(SliderDefault, Max(Min(SliderMin, SliderMax(distances)), SliderMax(distances)))

\* Values the user can set: the default, and the multiples of the step from
\* the low end of the range up to its high end, here at most MaxSliderMoves
\* steps away from the default.
SliderValues(distances) ==
    LET lo   == SliderLow(distances)
        hi   == SliderHigh(distances)
        base == lo + SliderStep * ((SliderDefault - lo) \div SliderStep)
    IN  {SliderDefault}
        \cup {v \in {base + SliderStep * j : j \in (-MaxSliderMoves)..(MaxSliderMoves + 1)} :
                /\ lo <= v
                /\ v <= hi
                /\ v - SliderDefault <= SliderStep * MaxSliderMoves
                /\ SliderDefault - v <= SliderStep * MaxSliderMoves}

\* df_with_dist[df_with_dist["distance_km"] <= radius]
WithinRadius(df, distances, r) ==
    LET dist_map == [i \in {distances[j][1] : j \in 1..Len(distances)} |->
                        distances[CHOOSE j \in 1..Len(distances) : distances[j][1] = i][2]]
        df_with_dist == [i \in 1..Len(df) |-> WithDistance(df[i], dist_map[df[i].idx])]
    IN  SelectSeq(df_with_dist, LAMBDA row : row.distance_km <= r * 1000)

\* Variant of SortedByDistance with the order reversed.
SortedDescending(df) == Orderings(df, "distance_km", TRUE)

\* df_radius[...].sort_values("distance_km")
SortedByDistance(df) == Orderings(df, "distance_km", FALSE)

\* ------------------------------------------------------------ one session
NoPage ==
    [warning |-> "", highest |-> NaN, lowest |-> NaN, closest |-> <<>>,
     radius_count |-> -1, radius_table |-> <<>>, error |-> ""]

\* The per-run values main() starts from: nothing survives a re-run.
FreshRun ==
    /\ selected_cont' = ""
    /\ selected_country' = ""
    /\ selected_types' = {}
    /\ df_filtered' = <<>>
    /\ counts' = <<>>
    /\ city_name' = ""
    /\ closest_df' = <<>>
    /\ radius' = 0
    /\ df_radius' = <<>>
    /\ shown' = NoPage
    /\ ran' = {}

Init ==
    /\ csv \in SeqsUpTo(CsvRows, MaxRows)
    /\ iso_csv \in IsoTables
    /\ airports = <<>>
    /\ loads = 0
    /\ runs = 1
    /\ pc = "start"
    /\ selected_cont = ""
    /\ selected_country = ""
    /\ selected_types = {}
    /\ df_filtered = <<>>
    /\ counts = <<>>
    /\ city_name = ""
    /\ closest_df = <<>>
    /\ radius = 0
    /\ df_radius = <<>>
    /\ shown = NoPage
    /\ ran = {}
    /\ args = <<>>
    /\ ret = <<>>

\* main(), line 151: airports = load_airports()
LoadAirports ==
    /\ pc = "start"
    /\ airports' = load_airports(csv, iso_csv)
    /\ loads' = loads + 1
    /\ pc' = "filters"
    /\ UNCHANGED <<csv, iso_csv, runs, selected_cont, selected_country, selected_types,
                   df_filtered, counts, city_name, closest_df, radius, df_radius,
                   shown, ran, args, ret>>

\* main(), lines 158-194: the three sidebar widgets and the filtered frame.
SelectFilters ==
    /\ pc = "filters"
    /\ \E cont \in Range(cont_display(airports)) :
          LET df_cont == FilterContinent(airports, cont)
          IN  \E country \in Range(country_display(df_cont)) :
                 LET df_country == FilterCountry(df_cont, country)
                 IN  \E types \in SUBSET Range(get_sorted_types(df_country)) :
                        /\ selected_cont' = cont
                        /\ selected_country' = country
                        /\ selected_types' = types
                        /\ df_filtered' = FilterTypes(df_country, types)
    /\ pc' = "tab1"
    /\ UNCHANGED <<csv, iso_csv, airports, loads, runs, counts, city_name, closest_df,
                   radius, df_radius, shown, ran, args, ret>>

\* Variant of Tab1NoResults that warns and goes on to the second tab.
Tab1WarnNoReturn ==
    /\ pc = "tab1"
    /\ empty(df_filtered)
    /\ shown' = [shown EXCEPT !.warning = "No airports match these filters."]
    /\ pc' = "tab2"
    /\ UNCHANGED <<csv, iso_csv, airports, loads, runs, selected_cont, selected_country,
                   selected_types, df_filtered, counts, city_name, closest_df, radius,
                   df_radius, ran, args, ret>>

\* main(), lines 200-204: nothing matches, warn and return.
Tab1NoResults ==
    /\ pc = "tab1"
    /\ empty(df_filtered)
    /\ shown' = [shown EXCEPT !.warning = "No airports match these filters."]
    /\ pc' = "done"
    /\ UNCHANGED <<csv, iso_csv, airports, loads, runs, selected_cont, selected_country,
                   selected_types, df_filtered, counts, city_name, closest_df, radius,
                   df_radius, ran, args, ret>>

\* main(), lines 206-246: counts by country, highest and lowest, bar chart, map.
Tab1Density ==
    /\ pc = "tab1"
    /\ ~empty(df_filtered)
    /\ \E c \in SortedCounts(df_filtered) :
          /\ counts' = c
          /\ shown' = [shown EXCEPT !.highest = get_country_min_max(c)[1],
                                    !.lowest = get_country_min_max(c)[2]]
    /\ ran' = ran \cup {"aggregation", "chart", "map"}
    /\ pc' = "tab2"
    /\ UNCHANGED <<csv, iso_csv, airports, loads, runs, selected_cont, selected_country,
                   selected_types, df_filtered, city_name, closest_df, radius,
                   df_radius, args, ret>>

\* main(), lines 249-270: the city selectbox and the closest three airports.
\* The test of line 252 cannot succeed here: line 204 has returned already.
Tab2Closest ==
    /\ pc = "tab2"
    /\ ~empty(df_filtered)
    /\ \E city \in DOMAIN WORLD_CITIES :
          LET pin == WORLD_CITIES[city]
              found == find_closest_airports(df_filtered, pin[1], pin[2], DefaultK)
          IN  /\ city_name' = city
              /\ closest_df' = found
              /\ shown' = [shown EXCEPT !.closest = ShowTable(found)]
    /\ ran' = ran \cup {"knn"}
    /\ pc' = "radius"
    /\ UNCHANGED <<csv, iso_csv, airports, loads, runs, selected_cont, selected_country,
                   selected_types, df_filtered, counts, radius, df_radius, args, ret>>

\* main(), lines 273-278 when the arguments of st.slider are not a valid
\* range and the library rejects them: the run ends with the exception.
\* Streamlit is not part of the program; whether a default outside
\* [min, max] is rejected or the range is widened depends on its release, so
\* both outcomes are possible steps.
RadiusSliderError ==
    /\ pc = "radius"
    /\ LET pin == WORLD_CITIES[city_name]
           distances == compute_distances_to_pin(df_filtered, pin[1], pin[2])
       IN  ~SliderValid(distances)
    /\ shown' = [shown EXCEPT !.error = "StreamlitAPIException"]
    /\ pc' = "failed"
    /\ UNCHANGED <<csv, iso_csv, airports, loads, runs, selected_cont, selected_country,
                   selected_types, df_filtered, counts, city_name, closest_df, radius,
                   df_radius, ran, args, ret>>

\* main(), lines 273-330: the slider gives a radius, the airports within it
\* are counted and, if there are any, listed by distance, charted and mapped.
RadiusSearch ==
    /\ pc = "radius"
    /\ LET pin == WORLD_CITIES[city_name]
           distances == compute_distances_to_pin(df_filtered, pin[1], pin[2])
       IN  \E r \in SliderValues(distances) :
              LET within == WithinRadius(df_filtered, distances, r)
              IN  /\ radius' = r
                  /\ df_radius' = within
                  /\ IF Len(within) > 0
                     THEN /\ \E tbl \in SortedByDistance(within) :
                                shown' = [shown EXCEPT !.radius_count = Len(within),
                                                       !.radius_table = ShowTable(tbl)]
                          /\ ran' = ran \cup {"radius", "chart", "map"}
                     ELSE /\ shown' = [shown EXCEPT !.radius_count = 0]
                          /\ ran' = ran \cup {"radius"}
    /\ pc' = "done"
    /\ UNCHANGED <<csv, iso_csv, airports, loads, runs, selected_cont, selected_country,
                   selected_types, df_filtered, counts, city_name, closest_df, args, ret>>

\* A user interaction (filter change, city selection, radius change): the
\* script is run again from its first line with fresh local variables.
Rerun ==
    /\ pc \in {"done", "failed"}
    /\ runs < MaxRuns
    /\ runs' = runs + 1
    /\ airports' = <<>>
    /\ FreshRun
    /\ pc' = "start"
    /\ UNCHANGED <<csv, iso_csv, loads, args, ret>>

Next ==
    \/ LoadAirports
    \/ SelectFilters
    \/ Tab1NoResults
    \/ Tab1Density
    \/ Tab2Closest
    \/ RadiusSliderError
    \/ RadiusSearch
    \/ Rerun

Spec == Init /\ [][Next]_vars

\* ------------------------------------------- direct calls of the helpers
\* The variables of a session, at rest while a helper is called directly.
Idle ==
    /\ csv = <<>>
    /\ iso_csv = <<>>
    /\ airports = <<>>
    /\ loads = 0
    /\ runs = 0
    /\ selected_cont = ""
    /\ selected_country = ""
    /\ selected_types = {}
    /\ df_filtered = <<>>
    /\ counts = <<>>
    /\ city_name = ""
    /\ closest_df = <<>>
    /\ radius = 0
    /\ df_radius = <<>>
    /\ shown = NoPage
    /\ ran = {}

IdleVars == <<csv, iso_csv, airports, loads, runs, selected_cont, selected_country,
              selected_types, df_filtered, counts, city_name, closest_df, radius,
              df_radius, shown, ran>>

\* find_closest_airports(df, pin_lat, pin_lon, k) on any loaded frame, any
\* point of interest and any k >= 0.
InitKnn ==
    /\ Idle
    /\ pc = "call"
    /\ \E rows \in SeqsUpTo(CsvRows, MaxRows), iso \in IsoTables, pin \in Coordinates,
          k \in 0..MaxK :
          args = [df |-> load_airports(rows, iso), pin_lat |-> pin[1],
                  pin_lon |-> pin[2], k |-> k]
    /\ ret = <<>>

KnnCall ==
    /\ pc = "call"
    /\ ret' = find_closest_airports(args.df, args.pin_lat, args.pin_lon, args.k)
    /\ pc' = "returned"
    /\ UNCHANGED <<IdleVars, args>>

NextKnn == KnnCall

SpecKnn == InitKnn /\ [][NextKnn]_vars

\* Latitudes and longitudes, in degrees, the distance function is called with.
Lats == {-90, -34, 0, 1, 38, 52, 90}
Lons == {-180, -74, 0, 24, 104, 180}

\* haversine_km(A, B), haversine_km(B, A) and haversine_km(A, A).
InitHav ==
    /\ Idle
    /\ pc = "call"
    /\ args \in [lat1 : Lats, lon1 : Lons, lat2 : Lats, lon2 : Lons]
    /\ ret = <<>>

HavCall ==
    /\ pc = "call"
    /\ ret' = [ab |-> haversine_km(args.lat1, args.lon1, args.lat2, args.lon2),
               ba |-> haversine_km(args.lat2, args.lon2, args.lat1, args.lon1),
               aa |-> haversine_km(args.lat1, args.lon1, args.lat1, args.lon1)]
    /\ pc' = "returned"
    /\ UNCHANGED <<IdleVars, args>>

NextHav == HavCall

SpecHav == InitHav /\ [][NextHav]_vars

\* ------------------------------------------------------------------ claims
\* Position of the row with index label `label` in a frame.
PosOf(df, label) == CHOOSE i \in 1..Len(df) : df[i].idx = label

IdxOf(df) == {df[i].idx : i \in 1..Len(df)}

\* C1: find_closest_airports returns exactly min(k, |collection|) airports of
\* the collection, and every returned airport is at most as far from the
\* point of interest as every airport of the collection that was not returned.
C1_KNearestSizeAndNearest ==
    pc = "returned" =>
        /\ Len(ret) = Min(args.k, Len(args.df))
        /\ Cardinality(IdxOf(ret)) = Len(ret)
        /\ IdxOf(ret) \subseteq IdxOf(args.df)
        /\ \A i \in 1..Len(ret) : \A j \in 1..Len(args.df) :
              args.df[j].idx \notin IdxOf(ret) =>
                  ret[i].distance_km <=
                      haversine_km(args.pin_lat, args.pin_lon,
                                   args.df[j].latitude_deg, args.df[j].longitude_deg)

\* A call with 0 < k < |collection| that left out an airport farther away
\* than one it returned.
C1_Witness ==
    /\ pc = "returned"
    /\ args.k > 0
    /\ Len(args.df) > args.k
    /\ Len(ret) = args.k
    /\ \E j \in 1..Len(args.df) :
          /\ args.df[j].idx \notin IdxOf(ret)
          /\ ret[1].distance_km <
                 haversine_km(args.pin_lat, args.pin_lon,
                              args.df[j].latitude_deg, args.df[j].longitude_deg)

\* C3: the rows find_closest_airports returns are in ascending order of
\* distance, each row is the airport with its index label together with that
\* airport's own distance from the point of interest, and airports at equal
\* distance keep the order they have in the input collection.
C3_AscendingOwnDistanceStable ==
    pc = "returned" =>
        /\ \A i \in 1..(Len(ret) - 1) : ret[i].distance_km <= ret[i + 1].distance_km
        /\ \A i \in 1..Len(ret) :
              /\ ret[i].idx \in IdxOf(args.df)
              /\ ret[i] = WithDistance(args.df[PosOf(args.df, ret[i].idx)],
                                       ret[i].distance_km)
              /\ ret[i].distance_km =
                     haversine_km(args.pin_lat, args.pin_lon,
                                  ret[i].latitude_deg, ret[i].longitude_deg)
        /\ \A i, j \in 1..Len(ret) :
              (i < j /\ ret[i].distance_km = ret[j].distance_km) =>
                  PosOf(args.df, ret[i].idx) < PosOf(args.df, ret[j].idx)

\* A call that returned two different airports at the same distance, after
\* a nearer one.
C3_Witness ==
    /\ pc = "returned"
    /\ Len(ret) >= 3
    /\ ret[1].distance_km < ret[2].distance_km
    /\ ret[2].distance_km = ret[3].distance_km
    /\ ret[2].longitude_deg # ret[3].longitude_deg

\* C4: haversine_km(A, B) = haversine_km(B, A) and haversine_km(A, A) = 0 for
\* latitudes in [-90, 90] and longitudes in [-180, 180].
C4_SymmetricAndZero ==
    pc = "returned" => (ret.ab = ret.ba /\ ret.aa = 0)

\* A call with two points a positive distance apart that differ in latitude
\* and in longitude.
C4_Witness ==
    /\ pc = "returned"
    /\ args.lat1 # args.lat2
    /\ args.lon1 # args.lon2
    /\ ret.ab > 0

\* The k-nearest result at k = |collection| for the run's city, cut at the
\* run's radius: the rows find_closest_airports returns with distance <= r.
KnnWithinRadius ==
    LET pin  == WORLD_CITIES[city_name]
        full == find_closest_airports(df_filtered, pin[1], pin[2], Len(df_filtered))
    IN  {full[i] : i \in {j \in 1..Len(full) : full[j].distance_km <= radius * 1000}}

RadiusStageDone == pc = "done" /\ shown.radius_count >= 0

\* C2, as amended: the airports within the radius are exactly the rows that
\* find_closest_airports with k = |collection| returns with distance <= r,
\* each with the same distance; the table shown lists exactly these airports
\* in ascending order of distance, each distance rounded to two decimals; no
\* table is shown when there is none.
C2_RadiusIsKnnSubsetShownRounded ==
    RadiusStageDone =>
        /\ Range(df_radius) = KnnWithinRadius
        /\ Cardinality(IdxOf(df_radius)) = Len(df_radius)
        /\ shown.radius_count = Cardinality(KnnWithinRadius)
        /\ Len(shown.radius_table) = Len(df_radius)
        /\ Range(shown.radius_table) = {ShowRow(r) : r \in KnnWithinRadius}
        /\ \A i \in 1..(Len(shown.radius_table) - 1) :
              /\ shown.radius_table[i].distance_km <= shown.radius_table[i + 1].distance_km
              /\ df_radius[PosOf(df_radius, shown.radius_table[i].idx)].distance_km
                     <= df_radius[PosOf(df_radius, shown.radius_table[i + 1].idx)].distance_km

\* A run whose radius keeps some airports and leaves others out, with two
\* kept airports at different distances, one of them changed by the rounding.
C2_Witness ==
    /\ RadiusStageDone
    /\ Len(df_radius) >= 2
    /\ Len(df_radius) < Len(df_filtered)
    /\ shown.radius_table[1].distance_km < shown.radius_table[2].distance_km
    /\ \E i \in 1..Len(df_radius) : round2(df_radius[i].distance_km) # df_radius[i].distance_km

\* C2 as stated: the radius result shown is exactly the set of airports that
\* find_closest_airports with k = |collection| returns with distance <= r,
\* each with the same distance, listed in ascending order of distance.
C2_ShownSameDistance ==
    RadiusStageDone =>
        /\ {<<shown.radius_table[i].idx, shown.radius_table[i].distance_km>> :
               i \in 1..Len(shown.radius_table)}
           = {<<r.idx, r.distance_km>> : r \in KnnWithinRadius}
        /\ \A i \in 1..(Len(shown.radius_table) - 1) :
              shown.radius_table[i].distance_km <= shown.radius_table[i + 1].distance_km

RECURSIVE SumCounts(_)
SumCounts(c) == IF c = <<>> THEN 0 ELSE c[1].airport_count + SumCounts(Tail(c))

\* C5: for every non-empty filtered collection the per-country airport
\* counts sum to the number of airports in the filtered collection.
C5_CountsSumToSize ==
    (pc \in {"tab2", "radius", "done", "failed"} /\ Len(df_filtered) > 0) =>
        SumCounts(counts) = Len(df_filtered)

\* The airports that satisfy the three sidebar selections.
MatchesSelections(a) ==
    /\ selected_cont = "All continents"
       \/ (a.continent # NaN /\ get_continent_full_name(a.continent) = selected_cont)
    /\ selected_country = "All countries" \/ a.country_name = selected_country
    /\ a.type \in selected_types

\* C6: the filtered collection is exactly the loaded airports that satisfy
\* the continent, country and type selections, a sentinel selection imposing
\* no restriction on its field.
C6_FilteredIsConjunction ==
    pc \notin {"start", "filters"} =>
        df_filtered = SelectSeq(airports, MatchesSelections)

\* A run with a continent, a country and a proper subset of the types
\* selected, which keeps some airports and drops others.
C6_Witness ==
    /\ pc = "tab1"
    /\ selected_cont \notin {"", "All continents"}
    /\ selected_country \notin {"", "All countries"}
    /\ selected_types # {}
    /\ \E i \in 1..Len(airports) :
          /\ airports[i].type \notin selected_types
          /\ airports[i].country_name = selected_country
    /\ \E i \in 1..Len(airports) : airports[i].country_name # selected_country
    /\ Len(df_filtered) > 0

\* C7: when the filtered collection is empty the run shows the no-results
\* notice and ends without an exception, and no aggregation, chart, map,
\* k-nearest search or radius search is executed in it.
C7_EmptySkipsEverything ==
    (Len(df_filtered) = 0 /\ pc \notin {"start", "filters", "tab1"}) =>
        /\ pc = "done"
        /\ shown.warning = "No airports match these filters."
        /\ shown.error = ""
        /\ ran = {}
        /\ counts = <<>>
        /\ closest_df = <<>>
        /\ shown.radius_count = -1

\* A finished run whose type selection left no airport of a loaded,
\* non-empty table.
C7_Witness ==
    /\ pc = "done"
    /\ Len(airports) > 0
    /\ Len(df_filtered) = 0
    /\ shown.warning # ""

\* C8: over any sequence of user interactions the airport dataset is loaded
\* exactly once, at startup, and the loaded collection is not modified by a
\* later filter, k-nearest or radius operation.
C8_LoadedOnceReadOnly ==
    pc # "start" =>
        /\ loads = 1
        /\ airports = load_airports(csv, iso_csv)

\* The rows of the reference table whose upper-cased code is c.
IsoRowsFor(c) == {j \in 1..Len(iso_csv) : str_upper(iso_csv[j].code) = c}

C10_RadiusStageNeverFails ==
    /\ pc # "failed"
    /\ pc = "radius" =>
          LET pin == WORLD_CITIES[city_name]
          IN  SliderValid(compute_distances_to_pin(df_filtered, pin[1], pin[2]))

====
